---- MODULE Spec2Model ----
(***************************************************************************)
(* Model of ghana_data/ghana_graphics.py: a Streamlit script that fetches  *)
(* World Bank indicators for Ghana and the USA, builds one table sorted by *)
(* year and renders a line chart for the indicator picked in a selectbox.  *)
(*                                                                         *)
(* A DataFrame is a sequence of rows; a row is a function from column      *)
(* names to values.  A nullable number (None / NaN) is the empty sequence, *)
(* a present number v is <<v>>.  A string that is parsed (the "date"       *)
(* column) is a sequence of one-character strings.                         *)
(***************************************************************************)
EXTENDS Integers, Sequences, FiniteSets, TLC

VARIABLES
    pc,               \* position of the script run
    k,                \* 1-based index of the next (indicator, country) pair of the loop
    response,         \* what requests.get(url).json() produced for the last call
    df,               \* the module-level df of the last loop iteration
    dfs,              \* the list of non-empty frames
    data,             \* the built table
    indicator_select, \* the selectbox's value in the session state
    selected_label,   \* what st.selectbox returned in this run
    shown,            \* what this run has put on the page
    error,            \* the exception that ended the run, "" when none
    data0,            \* the table built by the first run of the session
    results           \* what each call of fetch_worldbank_data of this run returned

vars == <<pc, k, response, df, dfs, data, indicator_select, selected_label,
          shown, error, data0, results>>

-----------------------------------------------------------------------------
(* Bounds of the model. *)

\* Largest number of rows all responses of one script run carry together.
MaxRecords == 2

\* The same, in the specification that follows a session over several runs.
MaxSessionRecords == 1

-----------------------------------------------------------------------------
(* Configuration. *)

COUNTRY_GH == "GHA"

COUNTRY_US == "USA"

INDICATORS ==
    << [label |-> "Child Anemia (% of children under 5)", code |-> "SH.ANM.CHLD.ZS"],
       [label |-> "Population with Safe Drinking Water (%)", code |-> "SH.H2O.SMDW.ZS"],
       [label |-> "Secondary Enrollment (% gross, both genders)", code |-> "SE.SEC.ENRR"],
       [label |-> "Educational attainment (Bachelor's or equivalent) (%)",
        code |-> "SE.TER.CUAT.BA.ZS"],
       [label |-> "GDP per Capita (USD)", code |-> "NY.GDP.PCAP.CD"] >>

Labels == {INDICATORS[i].label : i \in DOMAIN INDICATORS}

\* INDICATORS[selected_label]: the code stored under a label.
CodeOf(label) ==
    INDICATORS[CHOOSE i \in DOMAIN INDICATORS : INDICATORS[i].label = label].code

\* The description texts, abbreviated to their first words.
indicator_description ==
    ("Child Anemia (% of children under 5)" :>
        "This shows the prevalence of anemia among young children")
    @@ ("Population with Safe Drinking Water (%)" :>
        "Access to safe drinking water is essential")
    @@ ("Secondary Enrollment (% gross, both genders)" :>
        "Secondary enrollment (% gross) shows the total number of students")
    @@ ("Educational attainment (Bachelor's or equivalent) (%)" :>
        "This metric shows the proportion of adults")
    @@ ("GDP per Capita (USD)" :>
        "GDP per capita provides economic context")

\* The inner loop's list [COUNTRY_GH, COUNTRY_US].
LoopCountries == <<COUNTRY_GH, COUNTRY_US>>

\* The pairs of the two nested loops, indicator outer, country inner.
NPairs == Len(INDICATORS) * Len(LoopCountries)

PairAt(n) ==
    LET i == ((n - 1) \div Len(LoopCountries)) + 1
        c == ((n - 1) % Len(LoopCountries)) + 1
    IN  [label |-> INDICATORS[i].label, code |-> INDICATORS[i].code,
         country |-> LoopCountries[c]]

-----------------------------------------------------------------------------
(* Values. *)

None == <<>>

Some(v) == <<v>>

Digits == {"0", "1", "2", "3", "4", "5", "6", "7", "8", "9"}

DigitVal ==
    ("0" :> 0) @@ ("1" :> 1) @@ ("2" :> 2) @@ ("3" :> 3) @@ ("4" :> 4)
    @@ ("5" :> 5) @@ ("6" :> 6) @@ ("7" :> 7) @@ ("8" :> 8) @@ ("9" :> 9)

RECURSIVE ParseDigits(_)
ParseDigits(s) ==
    IF s = <<>> THEN 0
    ELSE 10 * ParseDigits(SubSeq(s, 1, Len(s) - 1)) + DigitVal[s[Len(s)]]

\* pd.to_numeric(x, errors="coerce") of one string: its number, NaN when it
\* does not parse.
to_numeric(s) ==
    IF s # <<>> /\ \A i \in DOMAIN s : s[i] \in Digits
    THEN Some(ParseDigits(s))
    ELSE None

\* SetCol, were the column only added where the row lacks it.
SetCol_KeepsPayload(row, col, v) == row @@ (col :> v)

\* df[col] = v on one row: sets the column, replacing what the row had there.
SetCol(row, col, v) == (col :> v) @@ row

SetColAll(frame, col, v) == [i \in DOMAIN frame |-> SetCol(frame[i], col, v)]

\* pd.concat of a list of frames.
RECURSIVE Concat(_)
Concat(frames) ==
    IF frames = <<>> THEN <<>>
    ELSE Concat(SubSeq(frames, 1, Len(frames) - 1)) \o frames[Len(frames)]

\* frame[frame[col] == v]: the rows with that value, in the frame's order.
RECURSIVE Filter(_, _, _)
Filter(frame, col, v) ==
    IF frame = <<>> THEN <<>>
    ELSE LET rest == Filter(SubSeq(frame, 1, Len(frame) - 1), col, v)
             last == frame[Len(frame)]
         IN  IF last[col] = v THEN Append(rest, last) ELSE rest

-----------------------------------------------------------------------------
(* The API's answers. *)

\* JSON values as far as the script looks into them.
JDict == [type |-> "dict", items |-> <<>>]

JNull == [type |-> "null", items |-> <<>>]

JString == [type |-> "string", items |-> <<>>]

JList(items) == [type |-> "list", items |-> items]

\* Elements of a data array.  The payload carries its own country and
\* indicator objects, a year as a string and a value that may be null.
PayloadRows ==
    { [country |-> "GH", indicator |-> "payload", date |-> <<"2", "0", "0", "0">>,
       value |-> Some(5)],
      [country |-> "US", indicator |-> "payload", date |-> <<"1", "9", "9", "0">>,
       value |-> Some(7)],
      [country |-> "GH", indicator |-> "payload", date |-> <<"2", "0", "0", "0", "Q", "1">>,
       value |-> None] }

\* The rows the API answers with in the specification of a session.
SessionRows == {r \in PayloadRows : r.value = Some(5)}

SeqsUpTo(S, n) == UNION {[1..m -> S] : m \in 0..n}

Raises(exc) == [outcome |-> exc, body |-> JNull]

Parsed(body) == [outcome |-> "json", body |-> body]

\* The outcomes of requests.get(url).json() whose data arrays hold at most
\* n rows drawn from rows.
Responses(rows, n) ==
    { Raises("ConnectionError"), Raises("JSONDecodeError"),
      Parsed(JDict), Parsed(JList(<<>>)), Parsed(JList(<<JDict>>)),
      Parsed(JList(<<JDict, JNull>>)), Parsed(JList(<<JDict, JString>>)) }
    \cup { Parsed(JList(<<JDict, JList(a)>>)) : a \in SeqsUpTo(rows, n) }

\* A parsed two-element list [metadata, data_array].
WellFormed(resp) ==
    /\ resp.outcome = "json"
    /\ resp.body.type = "list"
    /\ Len(resp.body.items) >= 2
    /\ resp.body.items[2].type = "list"

Returned(frame) == [exc |-> "", value |-> frame]

Raised(exc) == [exc |-> exc, value |-> <<>>]

\* pd.DataFrame(x): one row per element of a list of objects, an empty frame
\* for None, ValueError for a scalar.
DataFrame(x) ==
    IF x.type = "list" THEN Returned(x.items)
    ELSE IF x.type = "null" THEN Returned(<<>>)
    ELSE Raised("ValueError")

\* fetch_worldbank_data, were it to leave out df["country"] = country.
fetch_worldbank_data_Unstamped(country, code, resp) ==
    IF resp.outcome # "json" THEN Raised(resp.outcome)
    ELSE IF resp.body.type # "list" \/ Len(resp.body.items) < 2 THEN Returned(<<>>)
    ELSE LET made == DataFrame(resp.body.items[2])
         IN  IF made.exc # "" THEN made
             ELSE Returned(SetColAll(made.value, "indicator_code", code))

fetch_worldbank_data(country, code, resp) ==
    IF resp.outcome # "json" THEN Raised(resp.outcome)
    ELSE IF resp.body.type # "list" \/ Len(resp.body.items) < 2 THEN Returned(<<>>)
    ELSE LET made == DataFrame(resp.body.items[2])
         IN  IF made.exc # "" THEN made
             ELSE Returned(SetColAll(SetColAll(made.value, "indicator_code", code),
                                     "country", country))

-----------------------------------------------------------------------------
(* The build: lines 71-84. *)

\* data["date"] = pd.to_numeric(data["date"], errors="coerce")
CoerceDate(frame) ==
    [i \in DOMAIN frame |-> SetCol(frame[i], "date", to_numeric(frame[i]["date"]))]

Perms(n) == {p \in [1..n -> 1..n] : \A i, j \in 1..n : p[i] = p[j] => i = j}

\* MayPrecede, were the table left in the order of the concatenation's index.
MayPrecede_Unsorted(frame, a, b) == a < b

\* Whether sort_values("date") may put row a of the frame before row b: rows
\* with a year come first, ascending; rows whose year is NaN follow in the
\* order they had.  The default sort is not stable, so rows of one year may
\* come out in either order.
MayPrecede(frame, a, b) ==
    IF frame[a]["date"] = None
    THEN frame[b]["date"] = None /\ a < b
    ELSE frame[b]["date"] = None \/ frame[a]["date"][1] <= frame[b]["date"][1]

\* The frames data.sort_values("date") can return.
sort_values(frame) ==
    { [i \in DOMAIN frame |-> frame[p[i]]] :
        p \in { q \in Perms(Len(frame)) :
                  \A i, j \in DOMAIN frame : i < j => MayPrecede(frame, q[i], q[j]) } }

ghana(d) == Filter(d, "country", COUNTRY_GH)

usa(d) == Filter(d, "country", COUNTRY_US)

-----------------------------------------------------------------------------
(* The selection and the chart: lines 103-141. *)

\* selected_code, were it the first indicator's code whatever the label.
selected_code_First(label) == INDICATORS[1].code

selected_code(label) == CodeOf(label)

df_gh_sel(d, label) == Filter(ghana(d), "indicator_code", selected_code(label))

df_us_sel(d, label) == Filter(usa(d), "indicator_code", selected_code(label))

\* df_combined, were the two countries' views combined without the filter.
df_combined_Unfiltered(d, label) == ghana(d) \o usa(d)

df_combined(d, label) == df_gh_sel(d, label) \o df_us_sel(d, label)

\* Series.max() of the values left by dropna(): NaN for an empty series.
RECURSIVE SeriesMax(_)
SeriesMax(frame) ==
    IF frame = <<>> THEN None
    ELSE LET rest == SeriesMax(SubSeq(frame, 1, Len(frame) - 1))
             v == frame[Len(frame)]["value"]
         IN  IF v = None THEN rest
             ELSE IF rest = None THEN v
             ELSE IF v[1] > rest[1] THEN v ELSE rest

\* max_y_combined, were it taken over Ghana's rows alone.
max_y_combined_GhanaOnly(d, label) == SeriesMax(df_gh_sel(d, label))

max_y_combined(d, label) == SeriesMax(df_combined(d, label))

\* The indicator's part of the page before the run has written to it.
Blank == [warning |-> "", chart |-> None, markdown |-> None]

\* What lines 122-141 put on the page.
Page(d, label) ==
    IF df_combined(d, label) = <<>>
    THEN [warning |-> "No data available for this indicator.",
          chart |-> None, markdown |-> None]
    ELSE [warning |-> "",
          chart |-> Some([data_frame |-> df_combined(d, label),
                          x |-> "date", y |-> "value", color |-> "country",
                          title |-> label,
                          yaxis_range |-> <<Some(0), max_y_combined(d, label)>>]),
          markdown |-> Some(indicator_description[label])]

-----------------------------------------------------------------------------
(* The script run. *)

NoResponse == Parsed(JNull)

\* A run starts: nothing fetched, nothing on the page.
RunStart ==
    /\ pc = "loop"
    /\ k = 1
    /\ response = NoResponse
    /\ df = <<>>
    /\ dfs = <<>>
    /\ data = <<>>
    /\ selected_label = ""
    /\ shown = Blank
    /\ error = ""
    /\ results = <<>>

\* A script run under any value of the selectbox.
Init ==
    /\ RunStart
    /\ indicator_select \in Labels
    /\ data0 = None

\* A new session: the selectbox shows its first option.
InitSession ==
    /\ RunStart
    /\ indicator_select = INDICATORS[1].label
    /\ data0 = None

\* One iteration of the loop of lines 72-77, the API answering with one of
\* the responses that keep the run within cap rows.
Fetch(rows, cap) ==
    /\ pc = "loop"
    /\ k <= NPairs
    /\ \E resp \in Responses(rows, cap - Len(Concat(dfs))) :
         LET p == PairAt(k)
             r == fetch_worldbank_data(p.country, p.code, resp)
             labelled == SetColAll(r.value, "indicator_label", p.label)
         IN  /\ response' = resp
             /\ \/ /\ r.exc # ""
                   /\ pc' = "crashed"
                   /\ error' = r.exc
                   /\ UNCHANGED <<k, df, dfs, results>>
                \/ /\ r.exc = ""
                   /\ r.value = <<>>
                   /\ df' = r.value
                   /\ results' = Append(results, r.value)
                   /\ k' = k + 1
                   /\ UNCHANGED <<pc, error, dfs>>
                \/ /\ r.exc = ""
                   /\ r.value # <<>>
                   /\ df' = labelled
                   /\ dfs' = Append(dfs, labelled)
                   /\ results' = Append(results, r.value)
                   /\ k' = k + 1
                   /\ UNCHANGED <<pc, error>>
    /\ UNCHANGED <<data, indicator_select, selected_label, shown, data0>>

\* Lines 79-84: pd.concat raises ValueError on an empty list.
Build ==
    /\ pc = "loop"
    /\ k > NPairs
    /\ \/ /\ dfs = <<>>
          /\ pc' = "crashed"
          /\ error' = "ValueError"
          /\ UNCHANGED <<data, data0>>
       \/ /\ dfs # <<>>
          /\ data' \in sort_values(CoerceDate(Concat(dfs)))
          /\ data0' = IF data0 = None THEN Some(data') ELSE data0
          /\ pc' = "select"
          /\ UNCHANGED error
    /\ UNCHANGED <<k, response, df, dfs, indicator_select, selected_label, shown,
                   results>>

\* Render, were the selection to overwrite the table it filters.
Render_InPlace ==
    /\ pc = "select"
    /\ selected_label' = indicator_select
    /\ shown' = Page(data, indicator_select)
    /\ data' = df_combined(data, indicator_select)
    /\ pc' = "done"
    /\ UNCHANGED <<k, response, df, dfs, indicator_select, error, data0, results>>

\* Lines 103-141.
Render ==
    /\ pc = "select"
    /\ selected_label' = indicator_select
    /\ shown' = Page(data, indicator_select)
    /\ pc' = "done"
    /\ UNCHANGED <<k, response, df, dfs, data, indicator_select, error, data0,
                   results>>

\* The user picks another option: Streamlit stores it and runs the script
\* again from its first line.
SelectionChange ==
    /\ pc = "done"
    /\ \E l \in Labels \ {indicator_select} : indicator_select' = l
    /\ pc' = "loop"
    /\ k' = 1
    /\ response' = NoResponse
    /\ df' = <<>>
    /\ dfs' = <<>>
    /\ data' = <<>>
    /\ selected_label' = ""
    /\ shown' = Blank
    /\ error' = ""
    /\ results' = <<>>
    /\ UNCHANGED data0

Next == Fetch(PayloadRows, MaxRecords) \/ Build \/ Render

Spec == Init /\ [][Next]_vars

\* A session: the first run, then a run for every change of the selection.
NextSession ==
    Fetch(SessionRows, MaxSessionRecords) \/ Build \/ Render \/ SelectionChange

SpecSession == InitSession /\ [][NextSession]_vars

-----------------------------------------------------------------------------
(* Vocabulary of the properties. *)

Configured == {COUNTRY_GH, COUNTRY_US}

\* The build of the current run has completed.
Built == pc \in {"select", "done"}

\* fetch_worldbank_data has been called in this run, and its last call raised.
FetchCalled == response # NoResponse

FetchRaised == pc = "crashed" /\ k <= NPairs

\* The arguments of the last call.
LastPair == PairAt(IF FetchRaised THEN k ELSE k - 1)

\* The data array of a well-formed response.
DataArray(resp) == resp.body.items[2].items

Range(seq) == {seq[i] : i \in DOMAIN seq}

Count(seq, r) == Cardinality({i \in DOMAIN seq : seq[i] = r})

\* Two frames hold the same rows, each as often, in whatever order.
SameRows(a, b) ==
    /\ Len(a) = Len(b)
    /\ \A r \in Range(a) \cup Range(b) : Count(a, r) = Count(b, r)

RECURSIVE SumLen(_)
SumLen(frames) ==
    IF frames = <<>> THEN 0
    ELSE SumLen(SubSeq(frames, 1, Len(frames) - 1)) + Len(frames[Len(frames)])

\* The rows of d for the indicator of a label and a configured country.
RowsOfIndicator(d, label) ==
    LET Match(r) == r["indicator_code"] = CodeOf(label) /\ r["country"] \in Configured
    IN  SelectSeq(d, Match)

\* The rows of d carrying a label and a configured country.
RowsOfLabel(d, label) ==
    LET Match(r) == r["indicator_label"] = label /\ r["country"] \in Configured
    IN  SelectSeq(d, Match)

\* The render results: the warning alone, or a chart.
IsNoData(page) ==
    /\ page.warning = "No data available for this indicator."
    /\ page.chart = None
    /\ page.markdown = None

IsChart(page) == page.chart # None

Charted == IF IsChart(shown) THEN shown.chart[1].data_frame ELSE <<>>

-----------------------------------------------------------------------------
(* Properties. *)

\* C1: fetch_worldbank_data never fails: whenever the response is not a
\* well-formed two-element list (a non-list body, a list of fewer than two
\* elements, a missing second element, a network or JSON-parse failure), the
\* call raises nothing and returns an empty frame.
FetchNeverFails ==
    (FetchCalled /\ ~WellFormed(response)) => (~FetchRaised /\ df = <<>>)

\* Every call of the cross-product has returned, and returned an empty frame.
AllFetchesEmpty ==
    /\ Len(results) = NPairs
    /\ \A n \in DOMAIN results : results[n] = <<>>

\* C2: when every fetch of the cross-product returned empty, the build
\* completes without error and the Dataset is empty, and render gives NoData.
EmptyBuildGivesEmptyDataset ==
    AllFetchesEmpty =>
        /\ pc # "crashed"
        /\ data = <<>>
        /\ pc = "done" => IsNoData(shown)

\* C3: if the rows matching the selected indicator for the two countries are
\* non-empty but all their values are null, the render result is NoData.
AllNullIsNoData ==
    (/\ pc = "done"
     /\ RowsOfIndicator(data, selected_label) # <<>>
     /\ \A r \in Range(RowsOfIndicator(data, selected_label)) : r["value"] = None)
    => IsNoData(shown)

\* C4: for a well-formed response [metadata, data_array] the call returns one
\* record per element of data_array, in order, each with the country and the
\* indicator_code of the arguments whatever the payload carried, and with the
\* payload's date and value.
FetchStampsArguments ==
    (FetchCalled /\ WellFormed(response)) =>
        /\ ~FetchRaised
        /\ Len(df) = Len(DataArray(response))
        /\ \A i \in DOMAIN df :
             /\ df[i]["country"] = LastPair.country
             /\ df[i]["indicator_code"] = LastPair.code
             /\ df[i]["date"] = DataArray(response)[i]["date"]
             /\ df[i]["value"] = DataArray(response)[i]["value"]

FetchStampsArguments_Witness ==
    /\ FetchCalled
    /\ WellFormed(response)
    /\ Len(df) = 2
    /\ \E i \in DOMAIN df : DataArray(response)[i]["country"] # df[i]["country"]
    /\ df[1]["date"] # df[2]["date"]

\* C5: if no record of the Dataset matches the selected indicator for either
\* configured country, render gives NoData: the warning, no chart and no
\* description.
NoMatchIsNoData ==
    (pc = "done" /\ RowsOfIndicator(data, selected_label) = <<>>) => IsNoData(shown)

NoMatchIsNoData_Witness ==
    /\ pc = "done"
    /\ data # <<>>
    /\ RowsOfIndicator(data, selected_label) = <<>>
    /\ IsNoData(shown)

\* The rows the calls of this run returned, in call order, each with its
\* indicator's label and its year made numeric.
FetchedRows ==
    CoerceDate(Concat([n \in DOMAIN results |->
                          SetColAll(results[n], "indicator_label", PairAt(n).label)]))

\* C6: the built Dataset holds exactly the records the fetches returned (as
\* many as the sizes of the fetch results add up to, the empty results adding
\* nothing), with the year made numeric and the indicator's label added, and
\* its records are in ascending order of numeric year.
BuiltDatasetIsSortedUnion ==
    Built =>
        /\ Len(data) = SumLen(results)
        /\ SameRows(data, FetchedRows)
        /\ \A i, j \in DOMAIN data :
             (i < j /\ data[i]["date"] # None /\ data[j]["date"] # None)
                => data[i]["date"][1] <= data[j]["date"][1]

BuiltDatasetIsSortedUnion_Witness ==
    /\ Built
    /\ Len(data) >= 2
    /\ \E n \in DOMAIN results : results[n] = <<>>
    /\ data # FetchedRows
    /\ \E i, j \in DOMAIN data :
         /\ data[i]["date"] # None
         /\ data[j]["date"] # None
         /\ data[i]["date"][1] < data[j]["date"][1]

\* C7: whenever render produces a chart, the lower bound of its y-axis is 0
\* and the upper bound is the largest non-null value among the matching
\* records of both countries: no such value exceeds it, and it is one of them.
ChartRangeCoversValues ==
    IsChart(shown) =>
        LET range == shown.chart[1].yaxis_range
            rows == RowsOfIndicator(data, selected_label)
        IN  /\ range[1] = Some(0)
            /\ \A i \in DOMAIN rows :
                 rows[i]["value"] # None
                    => range[2] # None /\ rows[i]["value"][1] <= range[2][1]
            /\ range[2] # None => \E i \in DOMAIN rows : rows[i]["value"] = range[2]

ChartRangeCoversValues_Witness ==
    /\ IsChart(shown)
    /\ LET rows == RowsOfIndicator(data, selected_label)
       IN  /\ Len(rows) = 2
           /\ rows[1]["country"] = COUNTRY_GH
           /\ rows[2]["country"] = COUNTRY_US
           /\ rows[1]["value"] = Some(7)
           /\ rows[2]["value"] = Some(5)
           /\ shown.chart[1].yaxis_range = <<Some(0), Some(7)>>

\* C8: after the build, every record of the Dataset has the code of exactly
\* one configured indicator, that indicator's label and one of the two
\* configured countries, and no record belongs to a (country, indicator) pair
\* whose fetch returned empty.
DatasetRowsAreConfigured ==
    Built =>
        /\ \A r \in Range(data) :
             /\ Cardinality({i \in DOMAIN INDICATORS :
                               INDICATORS[i].code = r["indicator_code"]}) = 1
             /\ \A i \in DOMAIN INDICATORS :
                  INDICATORS[i].code = r["indicator_code"]
                     => r["indicator_label"] = INDICATORS[i].label
             /\ r["country"] \in Configured
        /\ \A n \in DOMAIN results :
             results[n] = <<>> =>
                ~ \E r \in Range(data) :
                     /\ r["country"] = PairAt(n).country
                     /\ r["indicator_code"] = PairAt(n).code

DatasetRowsAreConfigured_Witness ==
    /\ Built
    /\ \E n \in DOMAIN results : results[n] = <<>>
    /\ \E r1, r2 \in Range(data) :
         /\ r1["country"] # r2["country"]
         /\ r1["indicator_code"] # r2["indicator_code"]

\* C9: the rows render charts are exactly the Dataset rows whose
\* indicator_label is the selected label and whose country is one of the two
\* configured codes: filtering on the indicator_code looked up from the label
\* selects the rows a filter on indicator_label selects.
RenderFiltersByLabel ==
    pc = "done" =>
        /\ SameRows(Charted, RowsOfLabel(data, selected_label))
        /\ SameRows(df_combined(data, selected_label),
                    RowsOfLabel(data, selected_label))

RenderFiltersByLabel_Witness ==
    /\ pc = "done"
    /\ Len(Charted) >= 1
    /\ Len(Charted) < Len(data)
    /\ \E r \in Range(data) : r["indicator_label"] # selected_label

====
